---- MODULE Spec2Model ----
(***************************************************************************)
(* Model of samples/src/get_from_callbacks_api.cc: the main thread of the  *)
(* sample (configure, open, create windows, poll/render loop, close) and   *)
(* the callback closures it registers, run by the SDK's threads under one  *)
(* std::mutex.  Calls into the SDK and into OpenCV are opaque: what they   *)
(* return is an input, drawn from the values their return type admits.     *)
(***************************************************************************)
EXTENDS Integers, Sequences, FiniteSets

\* Number of SDK threads that invoke the registered callbacks.
NumSdkThreads == 2

SdkThreads == 1..NumSdkThreads

\* The mutex of line 69 is either free or held by one SDK thread.
MutexFree == 0

\* The three stream types of lines 80-84 / 129-131, in the order main renders them.
Streams == {"IMAGE_LEFT_COLOR", "IMAGE_RIGHT_COLOR", "IMAGE_DEPTH"}

DepthModes == {"DEPTH_COLORFUL", "DEPTH_GRAY", "DEPTH_RAW"}

\* Window titles of lines 134/136/138 and 154/164/179.
WindowName(s) ==
  IF s = "IMAGE_LEFT_COLOR" THEN "left color"
  ELSE IF s = "IMAGE_RIGHT_COLOR" THEN "right color"
  ELSE "depth"

\* Position of main at the render block of stream s (lines 146, 158, 168).
RenderPc(s) ==
  IF s = "IMAGE_LEFT_COLOR" THEN "left"
  ELSE IF s = "IMAGE_RIGHT_COLOR" THEN "right"
  ELSE "depth"

\* Position of main after the render block of stream s.
AfterRenderPc(s) ==
  IF s = "IMAGE_LEFT_COLOR" THEN "right"
  ELSE IF s = "IMAGE_RIGHT_COLOR" THEN "depth"
  ELSE "waitkey"

\* Positions of main inside the for (;;) loop of lines 142-187.
LoopPcs == {"wait", "left", "right", "depth", "waitkey", "test"}

\* Key codes compared at line 184.
KEY_ESC == 27
KEY_q == 113
KEY_Q == 81

\* Width of char, the target of the static_cast of line 183.
CharBits == 8

\* Values cv::waitKey(1) is made to return: no key (-1), the three quit
\* keys, quit keys with higher bits set (modifier flags), and other keys.
KeyReturns == {-1, 27, 113, 81, 283, 1048689, 65, 155}

\* What Image::To and GetStreamData can hand back through a shared_ptr.
PtrResults == {"img", "null"}

\* Signals by which the process dies on a null shared_ptr dereference.
CrashSignals == {"SIGSEGV", "SIGABRT"}

VARIABLES
  pc,             \* position of the main thread
  term,           \* "running", "returned", or the signal that killed the process
  exitCode,       \* value returned by main (meaningful when term = "returned")
  opened,         \* what api->IsOpened() answers after ConfigStreamRequest
  closeCount,     \* number of api->Close() calls
  depth_mode,     \* request.depth_mode
  char_is_signed, \* whether the build's plain char is signed
  supports,       \* what api->Supports(s) answers (a property of the device)
  is_ok,          \* is_left_ok / is_right_ok / is_depth_ok
  windows,        \* windows created by cv::namedWindow
  avail,          \* streams for which the SDK holds a frame not yet fetched
  got,            \* this iteration: result of GetStreamData(s).img
  conv,           \* this iteration: result of img->To(...)
  shown,          \* this iteration: cv::imshow called for s
  keyRet,         \* last value returned by cv::waitKey(1)
  key,            \* char key of line 183
  calls,          \* SDK / OpenCV functions main has called so far
  cout_main,      \* lines main has written to std::cout
  cerr,           \* lines main has written to std::cerr
  writing,        \* main is in the middle of a console write
  mutex,          \* holder of the std::mutex of line 69
  cpc,            \* per SDK thread: "idle", "wait", "cs", "written"
  cb,             \* per SDK thread: the callback being run
  flag,           \* per SDK thread: data.imu->flag of the motion sample
  out             \* per SDK thread: lines written by the running invocation

mainVars == <<pc, term, exitCode, opened, closeCount, depth_mode, char_is_signed,
              supports, is_ok, windows, got, conv, shown, keyRet, key, calls,
              cout_main, cerr, writing>>
cbVars == <<mutex, cpc, cb, flag, out>>
vars == <<pc, term, exitCode, opened, closeCount, depth_mode, char_is_signed,
          supports, is_ok, windows, avail, got, conv, shown, keyRet, key, calls,
          cout_main, cerr, writing, mutex, cpc, cb, flag, out>>

NoneYet == [s \in Streams |-> "none"]
NotShown == [s \in Streams |-> FALSE]

\* State when main reaches line 117: API created, request selected,
\* callbacks registered, nothing opened or written yet.
Init ==
  /\ pc = "config"
  /\ term = "running"
  /\ exitCode = 0
  /\ opened = FALSE
  /\ closeCount = 0
  /\ depth_mode \in DepthModes
  /\ char_is_signed \in BOOLEAN
  /\ supports \in [Streams -> BOOLEAN]
  /\ is_ok = [s \in Streams |-> FALSE]
  /\ windows = {}
  /\ avail = [s \in Streams |-> FALSE]
  /\ got = NoneYet
  /\ conv = NoneYet
  /\ shown = NotShown
  /\ keyRet = 0
  /\ key = 0
  /\ calls = {}
  /\ cout_main = <<>>
  /\ cerr = <<>>
  /\ writing = FALSE
  /\ mutex = MutexFree
  /\ cpc = [t \in SdkThreads |-> "idle"]
  /\ cb = [t \in SdkThreads |-> "none"]
  /\ flag = [t \in SdkThreads |-> "none"]
  /\ out = [t \in SdkThreads |-> <<>>]

(***************************************************************************)
(* The main thread, lines 117-191.                                         *)
(***************************************************************************)

Running == term = "running"

\* Line 117: api->ConfigStreamRequest(request) tries to open the device.
ConfigStreamRequest ==
  /\ Running /\ pc = "config"
  /\ \E o \in BOOLEAN : opened' = o
  /\ calls' = calls \cup {"ConfigStreamRequest"}
  /\ pc' = "blank"
  /\ UNCHANGED <<term, exitCode, closeCount, depth_mode, char_is_signed, supports,
                 is_ok, windows, avail, got, conv, shown, keyRet, key,
                 cout_main, cerr, writing>>
  /\ UNCHANGED cbVars

\* The console statements of main: lines 119, 121, 124-125, 127.
PrintPcs == {"blank", "err", "success", "press"}

\* The stream a statement writes to: only line 121 writes to std::cerr.
PrintsToCerr(p) == p = "err"

\* The lines a statement writes.
MainMessage(p) ==
  IF p = "blank" THEN <<"">>
  ELSE IF p = "err" THEN <<"Error: Open camera failed">>
  ELSE IF p = "success" THEN <<"Open device success", "">>
  ELSE <<"Press ESC/Q on Windows to terminate">>

\* The statement that follows a console statement.
AfterPrint(p) ==
  IF p = "blank" THEN "check"
  ELSE IF p = "err" THEN "ret1"
  ELSE IF p = "success" THEN "press"
  ELSE "supports"

\* Main starts one of its console statements; it takes no lock to do so.
MainWriteBegin ==
  /\ Running /\ pc \in PrintPcs /\ ~writing
  /\ writing' = TRUE
  /\ UNCHANGED <<pc, term, exitCode, opened, closeCount, depth_mode, char_is_signed,
                 supports, is_ok, windows, avail, got, conv, shown, keyRet, key,
                 calls, cout_main, cerr>>
  /\ UNCHANGED cbVars

\* Main ends the console statement: its text is complete.
MainWriteEnd ==
  /\ Running /\ pc \in PrintPcs /\ writing
  /\ writing' = FALSE
  /\ IF PrintsToCerr(pc)
       THEN cerr' = cerr \o MainMessage(pc) /\ UNCHANGED cout_main
       ELSE cout_main' = cout_main \o MainMessage(pc) /\ UNCHANGED cerr
  /\ pc' = AfterPrint(pc)
  /\ UNCHANGED <<term, exitCode, opened, closeCount, depth_mode, char_is_signed,
                 supports, is_ok, windows, avail, got, conv, shown, keyRet, key,
                 calls>>
  /\ UNCHANGED cbVars

\* The test of line 120 written without its negation.
OpenFailed_Inverted == opened

\* Line 120: if (!api->IsOpened()).
OpenFailed == ~opened

CheckOpened ==
  /\ Running /\ pc = "check"
  /\ calls' = calls \cup {"IsOpened"}
  /\ pc' = IF OpenFailed THEN "err" ELSE "success"
  /\ UNCHANGED <<term, exitCode, opened, closeCount, depth_mode, char_is_signed,
                 supports, is_ok, windows, avail, got, conv, shown, keyRet, key,
                 cout_main, cerr, writing>>
  /\ UNCHANGED cbVars

\* Line 122: return 1.
ReturnFailure ==
  /\ Running /\ pc = "ret1"
  /\ term' = "returned"
  /\ exitCode' = 1
  /\ pc' = "done"
  /\ UNCHANGED <<opened, closeCount, depth_mode, char_is_signed, supports,
                 is_ok, windows, avail, got, conv, shown, keyRet, key, calls,
                 cout_main, cerr, writing>>
  /\ UNCHANGED cbVars

\* Lines 129-131: is_left_ok, is_right_ok, is_depth_ok.
QuerySupports ==
  /\ Running /\ pc = "supports"
  /\ is_ok' = supports
  /\ calls' = calls \cup {"Supports"}
  /\ pc' = "windows"
  /\ UNCHANGED <<term, exitCode, opened, closeCount, depth_mode, char_is_signed,
                 supports, windows, avail, got, conv, shown, keyRet, key,
                 cout_main, cerr, writing>>
  /\ UNCHANGED cbVars

\* Lines 133-138: a window for every supported stream.
CreateWindows ==
  /\ Running /\ pc = "windows"
  /\ windows' = {WindowName(s) : s \in {x \in Streams : is_ok[x]}}
  /\ calls' = IF \E s \in Streams : is_ok[s]
                THEN calls \cup {"namedWindow"} ELSE calls
  /\ pc' = "wait"
  /\ UNCHANGED <<term, exitCode, opened, closeCount, depth_mode, char_is_signed,
                 supports, is_ok, avail, got, conv, shown, keyRet, key,
                 cout_main, cerr, writing>>
  /\ UNCHANGED cbVars

\* Lines 143-144: api->WaitForStreams(); counter.Update().
WaitForStreams ==
  /\ Running /\ pc = "wait"
  /\ calls' = calls \cup {"WaitForStreams"}
  /\ pc' = "left"
  /\ UNCHANGED <<term, exitCode, opened, closeCount, depth_mode, char_is_signed,
                 supports, is_ok, windows, avail, got, conv, shown, keyRet, key,
                 cout_main, cerr, writing>>
  /\ UNCHANGED cbVars

\* Lines 149, 161, 172-176: the color streams are always converted with
\* To(COLOR_BGR); depth is converted with To(DEPTH_BGR) only in DEPTH_COLORFUL mode.
NeedsConversion(s) == s # "IMAGE_DEPTH" \/ depth_mode = "DEPTH_COLORFUL"

\* Lines 146, 158, 168: the render block of a stream is guarded by its flag.
StreamEnabled(s) == is_ok[s]

\* The render block entered without the test of x.img.
HasImage_Unchecked(r) == TRUE

\* Lines 148, 160, 170: if (x.img).
HasImage(r) == r # "null"

\* One render block (lines 146-156, 158-166, 168-181) for stream s.
RenderStream(s) ==
  /\ Running /\ pc = RenderPc(s)
  /\ UNCHANGED <<exitCode, opened, closeCount, depth_mode, char_is_signed,
                 supports, is_ok, windows, keyRet, key, cout_main, cerr, writing>>
  /\ UNCHANGED cbVars
  /\ \/ \* the stream is unsupported: nothing is fetched
        /\ ~StreamEnabled(s)
        /\ pc' = AfterRenderPc(s)
        /\ UNCHANGED <<term, avail, got, conv, shown, calls>>
     \/ \* GetStreamData(s) is called and hands back the frame the SDK holds, if any
        /\ StreamEnabled(s)
        /\ LET r == IF avail[s] THEN "img" ELSE "null" IN
           /\ got' = [got EXCEPT ![s] = r]
           /\ avail' = [avail EXCEPT ![s] = FALSE]
           /\ \/ \* no image: the block is skipped
                 /\ ~HasImage(r)
                 /\ calls' = calls \cup {"GetStreamData"}
                 /\ pc' = AfterRenderPc(s)
                 /\ UNCHANGED <<term, conv, shown>>
              \/ \* an image that needs no conversion (depth, not colorful): ToMat, draw, imshow
                 /\ HasImage(r) /\ ~NeedsConversion(s)
                 /\ shown' = [shown EXCEPT ![s] = TRUE]
                 /\ calls' = calls \cup {"GetStreamData", "imshow"}
                 /\ pc' = AfterRenderPc(s)
                 /\ UNCHANGED <<term, conv>>
              \/ \* an image converted with To(...): the result is dereferenced unchecked
                 /\ HasImage(r) /\ NeedsConversion(s)
                 /\ \E c \in PtrResults :
                      /\ conv' = [conv EXCEPT ![s] = c]
                      /\ IF c = "null"
                           THEN /\ \E sig \in CrashSignals : term' = sig
                                /\ calls' = calls \cup {"GetStreamData"}
                                /\ pc' = "crashed"
                                /\ UNCHANGED shown
                           ELSE /\ shown' = [shown EXCEPT ![s] = TRUE]
                                /\ calls' = calls \cup {"GetStreamData", "imshow"}
                                /\ pc' = AfterRenderPc(s)
                                /\ UNCHANGED term

\* 2^CharBits.
CharModulus == 2 ^ CharBits

\* The key kept as the int cv::waitKey returned, with no cast to char.
ToChar_NoTruncation(v, signed) == v

\* static_cast<char>(v): the low 8 bits of v, read as a plain char of the build.
ToChar(v, signed) ==
  LET b == v % CharModulus IN
  IF signed /\ b >= CharModulus \div 2 THEN b - CharModulus ELSE b

\* Line 183: char key = static_cast<char>(cv::waitKey(1)).
PollKey ==
  /\ Running /\ pc = "waitkey"
  /\ \E r \in KeyReturns :
       /\ keyRet' = r
       /\ key' = ToChar(r, char_is_signed)
  /\ calls' = calls \cup {"waitKey"}
  /\ pc' = "test"
  /\ UNCHANGED <<term, exitCode, opened, closeCount, depth_mode, char_is_signed,
                 supports, is_ok, windows, avail, got, conv, shown,
                 cout_main, cerr, writing>>
  /\ UNCHANGED cbVars

\* Line 184: key == 27 || key == 'q' || key == 'Q'.
IsQuitKey(k) == k = KEY_ESC \/ k = KEY_q \/ k = KEY_Q

\* Lines 184-187: break on a quit key, otherwise start the next iteration
\* (the locals of the loop body go out of scope).
TestKey ==
  /\ Running /\ pc = "test"
  /\ IF IsQuitKey(key)
       THEN /\ pc' = "close"
            /\ UNCHANGED <<keyRet, key>>
       ELSE /\ pc' = "wait"
            /\ keyRet' = 0
            /\ key' = 0
  /\ got' = NoneYet
  /\ conv' = NoneYet
  /\ shown' = NotShown
  /\ UNCHANGED <<term, exitCode, opened, closeCount, depth_mode, char_is_signed,
                 supports, is_ok, windows, avail, calls,
                 cout_main, cerr, writing>>
  /\ UNCHANGED cbVars

\* Line 189: api->Close().
Close ==
  /\ Running /\ pc = "close"
  /\ closeCount' = closeCount + 1
  /\ calls' = calls \cup {"Close"}
  /\ pc' = "ret0"
  /\ UNCHANGED <<term, exitCode, opened, depth_mode, char_is_signed, supports,
                 is_ok, windows, avail, got, conv, shown, keyRet, key,
                 cout_main, cerr, writing>>
  /\ UNCHANGED cbVars

\* Line 191: return 0.
ReturnSuccess ==
  /\ Running /\ pc = "ret0"
  /\ term' = "returned"
  /\ exitCode' = 0
  /\ pc' = "done"
  /\ UNCHANGED <<opened, closeCount, depth_mode, char_is_signed, supports,
                 is_ok, windows, avail, got, conv, shown, keyRet, key, calls,
                 cout_main, cerr, writing>>
  /\ UNCHANGED cbVars

\* The device streams from a successful open until Close.
Streaming == Running /\ opened /\ closeCount = 0 /\ pc # "config"

\* The SDK has a new frame of a supported stream ready for GetStreamData.
SdkFrameReady(s) ==
  /\ Streaming /\ supports[s] /\ ~avail[s]
  /\ avail' = [avail EXCEPT ![s] = TRUE]
  /\ UNCHANGED mainVars
  /\ UNCHANGED cbVars

MainStep ==
  \/ ConfigStreamRequest
  \/ MainWriteBegin
  \/ MainWriteEnd
  \/ CheckOpened
  \/ ReturnFailure
  \/ QuerySupports
  \/ CreateWindows
  \/ WaitForStreams
  \/ \E s \in Streams : RenderStream(s)
  \/ PollKey
  \/ TestKey
  \/ Close
  \/ ReturnSuccess

NextMain ==
  \/ MainStep
  \/ \E s \in Streams : SdkFrameReady(s)

SpecMain == Init /\ [][NextMain]_vars

(***************************************************************************)
(* The callbacks of lines 69-115, run by the SDK's threads.                *)
(***************************************************************************)

\* The closures registered at lines 72, 87 (one per stream type) and 96.
Callbacks == {"img_info", "motion"} \cup Streams

\* Values of data.imu->flag: the two tags the closure tests, and any other.
ImuFlags == {"MYNTEYE_IMU_ACCEL", "MYNTEYE_IMU_GYRO", "OTHER"}

\* The second branch of the motion callback as a plain else.
MotionLines_PlainElse(f) ==
  IF f = "MYNTEYE_IMU_ACCEL" THEN <<"[accel]">>
  ELSE <<"[gyro]">>

\* Lines 98-112: the lines the motion callback writes for a sample.
MotionLines(f) ==
  IF f = "MYNTEYE_IMU_ACCEL" THEN <<"[accel]">>
  ELSE IF f = "MYNTEYE_IMU_GYRO" THEN <<"[gyro]">>
  ELSE <<>>

\* Lines 74-77, 89-91, 98-113: the lines a callback invocation writes.
CallbackLines(c, f) ==
  IF c = "img_info" THEN <<"[img_info]">>
  ELSE IF c = "motion" THEN MotionLines(f)
  ELSE <<c>>

\* States of an invocation between taking the mutex and releasing it.
InSection == {"cs", "written"}

\* An SDK thread invokes one of the registered callbacks with new data.
CallbackInvoke(t) ==
  /\ Streaming /\ cpc[t] = "idle"
  /\ \E c \in Callbacks :
       /\ cb' = [cb EXCEPT ![t] = c]
       /\ \E f \in (IF c = "motion" THEN ImuFlags ELSE {"none"}) :
            flag' = [flag EXCEPT ![t] = f]
  /\ cpc' = [cpc EXCEPT ![t] = "wait"]
  /\ UNCHANGED <<mutex, out, avail>>
  /\ UNCHANGED mainVars

\* The guard as an unnamed temporary, std::lock_guard<std::mutex>(mutex):
\* it takes the mutex when free and releases it at the end of the statement.
CallbackLock_Temporary(t) ==
  /\ Running /\ cpc[t] = "wait"
  /\ mutex = MutexFree
  /\ mutex' = MutexFree
  /\ cpc' = [cpc EXCEPT ![t] = "cs"]
  /\ UNCHANGED <<cb, flag, out, avail>>
  /\ UNCHANGED mainVars

\* The closure entered without waiting for the mutex to be free.
CallbackLock_NoWait(t) ==
  /\ Running /\ cpc[t] = "wait"
  /\ mutex' = t
  /\ cpc' = [cpc EXCEPT ![t] = "cs"]
  /\ UNCHANGED <<cb, flag, out, avail>>
  /\ UNCHANGED mainVars

\* Lines 73, 88, 97: std::lock_guard<std::mutex> _(mutex) blocks until the
\* mutex is free and holds it to the end of the closure.
CallbackLock(t) ==
  /\ Running /\ cpc[t] = "wait"
  /\ mutex = MutexFree
  /\ mutex' = t
  /\ cpc' = [cpc EXCEPT ![t] = "cs"]
  /\ UNCHANGED <<cb, flag, out, avail>>
  /\ UNCHANGED mainVars

\* Lines 74-77, 89-91, 98-112: the closure writes its text to std::cout.
CallbackWrite(t) ==
  /\ Running /\ cpc[t] = "cs"
  /\ out' = [out EXCEPT ![t] = CallbackLines(cb[t], flag[t])]
  /\ cpc' = [cpc EXCEPT ![t] = "written"]
  /\ UNCHANGED <<mutex, cb, flag, avail>>
  /\ UNCHANGED mainVars

\* Lines 78, 92, 114: the closure returns; the lock_guard releases the mutex.
CallbackReturn(t) ==
  /\ Running /\ cpc[t] = "written"
  /\ mutex' = IF mutex = t THEN MutexFree ELSE mutex
  /\ cpc' = [cpc EXCEPT ![t] = "idle"]
  /\ cb' = [cb EXCEPT ![t] = "none"]
  /\ flag' = [flag EXCEPT ![t] = "none"]
  /\ out' = [out EXCEPT ![t] = <<>>]
  /\ UNCHANGED avail
  /\ UNCHANGED mainVars

CallbackStep ==
  \E t \in SdkThreads :
    \/ CallbackInvoke(t)
    \/ CallbackLock(t)
    \/ CallbackWrite(t)
    \/ CallbackReturn(t)

Next ==
  \/ NextMain
  \/ CallbackStep

Spec == Init /\ [][Next]_vars

\* One device and one build: left and depth supported, right not, raw depth.
InitCallbacks ==
  /\ Init
  /\ supports = [s \in Streams |-> s # "IMAGE_RIGHT_COLOR"]
  /\ depth_mode = "DEPTH_RAW"
  /\ char_is_signed

SpecCallbacks == InitCallbacks /\ [][Next]_vars

\* The main thread keeps running while the process lives, and the SDK keeps
\* producing frames of every supported stream while the device streams.
LiveSpec ==
  /\ SpecMain
  /\ WF_vars(MainStep)
  /\ \A s \in Streams : WF_vars(SdkFrameReady(s))

(***************************************************************************)
(* Properties.                                                             *)
(***************************************************************************)

\* The IsOpened() test of line 120 has run and found the device not opened.
OpenFailureSeen == ~opened /\ "IsOpened" \in calls

\* Functions that create or fill a window, enter the loop or fetch a frame.
DisplayCalls == {"namedWindow", "imshow", "WaitForStreams", "GetStreamData", "waitKey"}

\* C1: when IsOpened() is false after ConfigStreamRequest, main writes
\* "Error: Open camera failed" to std::cerr and returns 1; on that run no
\* window is created or shown, the loop is not entered, and WaitForStreams and
\* GetStreamData are never called.
C1_OpenFailureExitsBeforeDisplay ==
  OpenFailureSeen =>
    /\ pc \in {"err", "ret1", "done"}
    /\ windows = {}
    /\ calls \cap DisplayCalls = {}
    /\ \A s \in Streams : ~shown[s] /\ got[s] = "none"
    /\ closeCount = 0
    /\ pc \in {"ret1", "done"} => cerr = <<"Error: Open camera failed">>
    /\ pc = "done" => term = "returned" /\ exitCode = 1

C1_Witness ==
  /\ OpenFailureSeen
  /\ pc = "done" /\ term = "returned" /\ exitCode = 1
  /\ cerr = <<"Error: Open camera failed">>

\* The three characters that end the loop: ESC, 'q', 'Q'.
QuitChars == {KEY_ESC, KEY_q, KEY_Q}

\* C2: in every execution the poll loop is left if and only if the key
\* polled at the end of the iteration is ESC, 'q' or 'Q': every step that
\* takes main out of the loop is the key test on one of these keys, the key
\* test on one of them always leaves, and no unsupported stream, missing
\* frame, absent key or other key ends the loop.
C2_OnlyQuitKeyEndsLoop ==
  [][ /\ pc \in LoopPcs /\ pc' \notin LoopPcs =>
           pc = "test" /\ key \in QuitChars /\ pc' = "close"
      /\ pc = "test" /\ pc' # pc => (pc' = "close" <=> key \in QuitChars)
      /\ \A s \in Streams :
           pc = RenderPc(s) /\ pc' # pc /\ (~is_ok[s] \/ got'[s] = "null")
             => pc' = AfterRenderPc(s) /\ term' = "running"
    ]_vars

\* C3: the process ends in exactly two ways: main returns 0, after a quit
\* key ended the loop and Close() was called exactly once, or main returns 1,
\* when the device failed to open and Close() was never called; a run on
\* which the device opened ends in no other way.
C3_ExactlyTwoExitOutcomes ==
  /\ closeCount <= 1
  /\ term # "running" =>
       /\ term = "returned" /\ pc = "done"
       /\ exitCode \in {0, 1}
       /\ exitCode = 0 =>
            opened /\ closeCount = 1 /\ "Close" \in calls /\ key \in QuitChars
       /\ exitCode = 1 =>
            ~opened /\ closeCount = 0 /\ "Close" \notin calls

\* SDK threads inside a callback's console-writing section.
Writers == {t \in SdkThreads : cpc[t] \in InSection}

\* C4: at most one callback invocation is inside its console-writing
\* section at any time, whichever callbacks the SDK threads run.
C4_CallbackWritesSerialized ==
  /\ Cardinality(Writers) <= 1
  /\ \A t \in SdkThreads : cpc[t] \in InSection <=> mutex = t

C4_Witness ==
  \E t, u \in SdkThreads :
    /\ t # u
    /\ cpc[t] = "written" /\ cb[t] = "img_info"
    /\ cpc[u] = "wait" /\ cb[u] = "motion"

\* Number of lines of a text equal to x.
CountLines(text, x) == Cardinality({i \in DOMAIN text : text[i] = x})

\* C5: a motion sample flagged MYNTEYE_IMU_ACCEL yields exactly one "[accel]"
\* line and no "[gyro]" line, one flagged MYNTEYE_IMU_GYRO exactly one
\* "[gyro]" line and no "[accel]" line, and any other flag no line at all.
C5_MotionBranchesExclusive ==
  \A t \in SdkThreads :
    cpc[t] = "written" /\ cb[t] = "motion" =>
      /\ flag[t] = "MYNTEYE_IMU_ACCEL" =>
           CountLines(out[t], "[accel]") = 1 /\ CountLines(out[t], "[gyro]") = 0
      /\ flag[t] = "MYNTEYE_IMU_GYRO" =>
           CountLines(out[t], "[gyro]") = 1 /\ CountLines(out[t], "[accel]") = 0
      /\ flag[t] \notin {"MYNTEYE_IMU_ACCEL", "MYNTEYE_IMU_GYRO"} => out[t] = <<>>
      /\ ~(CountLines(out[t], "[accel]") > 0 /\ CountLines(out[t], "[gyro]") > 0)
      /\ Len(out[t]) <= 1

C5_Witness ==
  \E t, u \in SdkThreads :
    /\ cpc[t] = "written" /\ cb[t] = "motion"
    /\ flag[t] = "MYNTEYE_IMU_GYRO" /\ out[t] = <<"[gyro]">>
    /\ cb[u] = "motion" /\ flag[u] = "OTHER"

\* C6: in every iteration, for each stream on its own: an unsupported stream
\* is never fetched or shown; a supported stream whose GetStreamData has no
\* image is skipped, with nothing written and the process alive, and control
\* goes on to the next block; so at the key poll a stream has been shown
\* exactly when it is supported and its own frame was there.
C6_MissingFrameSkipsOnlyThatStream ==
  [][ /\ \A s \in Streams :
           pc = RenderPc(s) /\ pc' # pc /\ (~is_ok[s] \/ got'[s] = "null") =>
             /\ pc' = AfterRenderPc(s)
             /\ term' = "running"
             /\ shown' = shown
             /\ cout_main' = cout_main /\ cerr' = cerr
             /\ got'[s] = (IF is_ok[s] THEN "null" ELSE "none")
             /\ \A o \in Streams \ {s} : got'[o] = got[o]
      /\ pc' \in {"waitkey", "test"} =>
           \A s \in Streams :
             /\ got'[s] # "none" <=> is_ok'[s]
             /\ shown'[s] <=> (is_ok'[s] /\ got'[s] = "img")
    ]_vars

C6_Witness ==
  /\ pc = "test"
  /\ got["IMAGE_LEFT_COLOR"] = "null" /\ ~shown["IMAGE_LEFT_COLOR"]
  /\ shown["IMAGE_RIGHT_COLOR"]
  /\ ~is_ok["IMAGE_DEPTH"] /\ got["IMAGE_DEPTH"] = "none"

\* C7: when img->To(...) yields no image, the result is not used, the
\* stream's render step is skipped and the loop goes on to the key poll.
C7_ConversionFailureSkipped ==
  \A s \in Streams :
    conv[s] = "null" => term = "running" /\ pc \in LoopPcs /\ ~shown[s]

\* The loop has been left by a quit key.
QuitPressed == pc \in {"close", "ret0", "done"}

\* C8: for every supported stream, once the device is open and the loop
\* runs, GetStreamData eventually hands the loop a non-null frame of that
\* stream, unless a quit key is pressed first.
C8_SupportedStreamEventuallyFetched ==
  \A s \in Streams :
    [](pc \in LoopPcs /\ is_ok[s] => <>(got[s] = "img" \/ QuitPressed))

\* C9, as stated: while main is in one of its console writes, no callback
\* invocation is inside its console-writing section.
C9_MainWritesNeverOverlap == writing => Writers = {}

\* C9, amended: main takes no lock for its console writes, so a callback may
\* be writing while main writes; the mutex only keeps it to one callback.
C9_MainWritesOverlapOneCallbackAtMost ==
  /\ writing => Cardinality(Writers) <= 1
  /\ mutex \in SdkThreads \cup {MutexFree}

C9_Witness ==
  /\ writing /\ pc = "success"
  /\ \E t \in SdkThreads : cpc[t] = "cs" /\ mutex = t

\* The low 8 bits of a value.
LowBits(v) == v % 256

\* C10: the loop breaks exactly when the low 8 bits of the value returned by
\* cv::waitKey(1) are 27, 113 or 81, whatever its higher bits; the char
\* tested is that value truncated to 8 bits; -1 (no key) never breaks.
C10_QuitDecidedOnLowBits ==
  [][ /\ pc = "test" /\ pc' # pc =>
           (pc' = "close" <=> LowBits(keyRet) \in {27, 113, 81})
      /\ pc' = "test" => LowBits(key') = LowBits(keyRet') /\ key' \in -128..255
      /\ pc = "test" /\ pc' # pc /\ keyRet = -1 => pc' = "wait"
    ]_vars

C10_Witness == pc = "close" /\ keyRet = 283 /\ key = KEY_ESC

====
